---- MODULE Spec2Model ----
(***************************************************************************)
(* State-machine model of the todos server of src/main.rs: a Vec<Todo>     *)
(* behind one Mutex (Db), the four store handlers list_todos, create_todo, *)
(* update_todo and delete_todo, and the proxy route GET /posts built on    *)
(* fetch_json.  A request is a slot of `pc`; the handlers are split at the *)
(* points where the code can be interleaved with another request: the      *)
(* call of Mutex::lock(), the scan of the vector, the mutation, and the    *)
(* return (which drops the MutexGuard).                                    *)
(***************************************************************************)
EXTENDS Integers, Sequences, FiniteSets, TLC

(* ------------------------------ bounds --------------------------------- *)

\* the store is capped: no create is routed once MaxLen records exist or are
\* about to be pushed
MaxLen == 2

\* the connections the server reuses: a request arrives on one of them when
\* the connection is idle or has had its response. Any other request slot is
\* a client that sends one request and keeps what it sent and got.
Reqs == {1, 2}

\* ids, texts and completed flags the clients send
Ids == {1, 2}
Payloads == {[text |-> "a", completed |-> FALSE], [text |-> "b", completed |-> TRUE]}

(* --------------------------- status codes ------------------------------ *)

OK == 200
CREATED == 201
NO_CONTENT == 204
BAD_REQUEST == 400
NOT_FOUND == 404

(* ------------------------------ records -------------------------------- *)

\* struct Todo
Todo(i, t, c) == [id |-> i, text |-> t, completed |-> c]

Bodies == {Todo(i, p.text, p.completed) : i \in Ids, p \in Payloads}

\* the value of the fields a request does not use
NoTodo == Todo(0, "", FALSE)

Kinds == {"list", "create", "update", "delete", "posts"}

\* the routes whose filter chain ends in .and(db.clone()): the handlers that
\* are handed the Db
\* faulty: every route is handed the Db and locks it
TakesDbAll(k) == TRUE

TakesDb(k) == k \in {"list", "create", "update", "delete"}

(* ------------------------- the vector of todos ------------------------- *)
\* An element of db is [todo |-> the Todo, born |-> rank of its push]; born is
\* history only: no handler reads it and the JSON of a Todo does not have it.

Todos(vec) == [i \in 1..Len(vec) |-> vec[i].todo]

RECURSIVE ScanFrom(_, _, _)
ScanFrom(vec, id, i) ==
    IF i > Len(vec) THEN 0
    ELSE IF vec[i].todo.id = id THEN i
    ELSE ScanFrom(vec, id, i + 1)

\* faulty: the loop stops at its first record without comparing the ids
FirstIdxAny(vec, id) == IF Len(vec) > 0 THEN 1 ELSE 0

\* for todo in vec.iter() { if todo.id == id {..} }: the first index whose
\* todo has this id, 0 when the loop runs to its end
FirstIdx(vec, id) == ScanFrom(vec, id, 1)

MaxBorn(vec) == IF Len(vec) = 0 THEN 0
                ELSE CHOOSE m \in {vec[i].born : i \in 1..Len(vec)} :
                         \A i \in 1..Len(vec) : vec[i].born <= m

\* born fields renumbered 1..n in their order (ranks only matter)
Renumber(vec) ==
    [i \in 1..Len(vec) |->
        [todo |-> vec[i].todo,
         born |-> Cardinality({j \in 1..Len(vec) : vec[j].born <= vec[i].born})]]

\* faulty: the new record goes in front
PushFront(vec, t) == Renumber(<<[todo |-> t, born |-> MaxBorn(vec) + 1]>> \o vec)

\* faulty: the new record overwrites the last one
PushReplace(vec, t) ==
    IF Len(vec) = 0 THEN <<[todo |-> t, born |-> 1]>>
    ELSE [vec EXCEPT ![Len(vec)] = [todo |-> t, born |-> vec[Len(vec)].born]]

\* vec.push(create)
Push(vec, t) == Renumber(Append(vec, [todo |-> t, born |-> MaxBorn(vec) + 1]))

RECURSIVE RetainFrom(_, _, _)
RetainFrom(vec, id, i) ==
    IF i > Len(vec) THEN <<>>
    ELSE IF vec[i].todo.id # id
         THEN <<vec[i]>> \o RetainFrom(vec, id, i + 1)
         ELSE RetainFrom(vec, id, i + 1)

\* vec.retain(|todo| todo.id != id)
Retain(vec, id) == Renumber(RetainFrom(vec, id, 1))

\* faulty: the matched record is removed and the update is pushed at the end
AssignMoved(vec, i, t) ==
    Renumber([k \in 1..Len(vec) |->
                IF k < i THEN vec[k]
                ELSE IF k < Len(vec) THEN vec[k + 1]
                ELSE [todo |-> t, born |-> MaxBorn(vec) + 1]])

\* *todo = update, at the index the scan stopped at
Assign(vec, i, t) == [vec EXCEPT ![i] = [todo |-> t, born |-> vec[i].born]]

(* ------------------------------- JSON ---------------------------------- *)

\* #[derive(Serialize)] struct Todo
TodoJson(t) == [id |-> t.id, text |-> t.text, completed |-> t.completed]

\* faulty: the array is written last record first
ReplyJsonReversed(vec) == [i \in 1..Len(vec) |-> TodoJson(vec[Len(vec) + 1 - i].todo)]

\* warp::reply::json(&*vec): the array of the todos in the order of the vector
ReplyJson(vec) == [i \in 1..Len(vec) |-> TodoJson(vec[i].todo)]

(* -------------------------- the upstream body -------------------------- *)
\* The bytes the upstream sends are modelled by their JSON reading: syntax is
\* "garbage" (no JSON), "object" (JSON, but no array) or "array" with items,
\* each item an object: a function from its keys to tagged values.

Num(n) == [t |-> "num", n |-> n, s |-> ""]
Str(s) == [t |-> "str", n |-> 0, s |-> s]

GoodObj == [k \in {"userId", "id", "title", "body"} |->
              CASE k = "userId" -> Num(7)
                [] k = "id" -> Num(1)
                [] k = "title" -> Str("t")
                [] k = "body" -> Str("b")]

\* a key Post does not have
ExtraObj == [k \in {"userId", "id", "title", "body", "views"} |->
              IF k = "views" THEN Num(3) ELSE GoodObj[k]]

\* no title
ShortObj == [k \in {"userId", "id", "body"} |-> GoodObj[k]]

\* id is a string
TypedObj == [GoodObj EXCEPT !["id"] = Str("1")]

UpBodies ==
    { [syntax |-> "garbage", items |-> <<>>],
      [syntax |-> "object", items |-> <<>>],
      [syntax |-> "array", items |-> <<>>],
      [syntax |-> "array", items |-> <<ExtraObj>>],
      [syntax |-> "array", items |-> <<GoodObj, ShortObj>>],
      [syntax |-> "array", items |-> <<TypedObj>>] }

\* no body has arrived
NoBytes == [syntax |-> "none", items |-> <<>>]

\* #[derive(Deserialize)] struct Post: the four fields present with their
\* types (userId renamed), other keys ignored
IsPost(o) ==
    /\ {"userId", "id", "title", "body"} \subseteq DOMAIN o
    /\ o["userId"].t = "num"
    /\ o["id"].t = "num"
    /\ o["title"].t = "str"
    /\ o["body"].t = "str"

ToPost(o) == [user_id |-> o["userId"].n, id |-> o["id"].n,
              title |-> o["title"].s, body |-> o["body"].s]

\* serde_json::from_slice::<Vec<Post>>(&body) succeeds
DecodeOk(b) ==
    /\ b.syntax = "array"
    /\ \A i \in 1..Len(b.items) : IsPost(b.items[i])

Decode(b) == [i \in 1..Len(b.items) |-> ToPost(b.items[i])]

\* #[derive(Serialize)] struct Post
PostJson(p) == [userId |-> p.user_id, id |-> p.id, title |-> p.title, body |-> p.body]

\* warp::reply::json(&posts)
PostsJson(posts) == [i \in 1..Len(posts) |-> PostJson(posts[i])]

(* ------------------------------ json_body ------------------------------ *)

\* content_length_limit(1024 * 16): the largest Content-Length let through
Limit == 16384

\* the Content-Length of a request: at the limit, or one byte over it
Lengths == {Limit, Limit + 1}

\* the status of the rejection of content_length_limit
PAYLOAD_TOO_LARGE == 413

\* faulty: a rejected body is answered 200
JsonBodyAccepts(length, parsed) == OK

\* content_length_limit(..).and(body::json()): the status of the rejection of
\* a body of the given Content-Length that parses as a Todo or does not,
\* 0 when both filters pass and the Todo is extracted
JsonBodyStatus(length, parsed) ==
    IF length > Limit THEN PAYLOAD_TOO_LARGE
    ELSE IF ~parsed THEN BAD_REQUEST
    ELSE 0

(* ------------------------------ the mutex ------------------------------ *)

\* faulty: lock() returns while another guard is alive
MutexFreeAlways(l) == TRUE

\* Mutex::lock() returns once no guard is alive (0: no holder)
MutexFree(l) == l = 0

\* faulty: the guard is not released at the return
GuardLeak(l, r) == l

\* the MutexGuard `vec` goes out of scope
GuardDrop(l, r) == IF l = r THEN 0 ELSE l

(* ------------------------ the handlers' decisions ---------------------- *)

\* create_todo: 400 when the loop found the id, 201 after the push
CreateStatus(found) == IF found # 0 THEN BAD_REQUEST ELSE CREATED

\* faulty: the push is not skipped when the id was found
CreateStoreAlways(vec, found, t) == Push(vec, t)

CreateStore(vec, found, t) == IF found # 0 THEN vec ELSE Push(vec, t)

\* update_todo: Ok(warp::reply()) inside the loop, Err(not_found()) after it
UpdateStatus(found) == IF found # 0 THEN OK ELSE NOT_FOUND

UpdateStore(vec, found, t) == IF found # 0 THEN Assign(vec, found, t) ELSE vec

\* delete_todo: deleted = vec.len() != len
DeleteStatus(vec, len) == IF Len(vec) # len THEN NO_CONTENT ELSE NOT_FOUND

\* faulty: a transport failure is answered 502
PostsStatusSplit(e) == IF e = "none" THEN OK ELSE IF e = "Http" THEN 502 ELSE NOT_FOUND

\* posts_list: .map(reply::json) / .map_err(|_| reject::not_found())
PostsStatus(e) == IF e = "none" THEN OK ELSE NOT_FOUND

(* --------------- the handlers run alone (one call, no steps) ----------- *)
\* What one call of a store handler does to a vector of todos and what it
\* answers, used to compare a concurrent run against a run one at a time.

SeqStore(k, p, b, vec) ==
    CASE k = "create" -> IF \E i \in 1..Len(vec) : vec[i].id = b.id
                         THEN vec ELSE Append(vec, b)
      [] k = "update" -> IF \E i \in 1..Len(vec) : vec[i].id = p
                         THEN LET f == CHOOSE i \in 1..Len(vec) :
                                         /\ vec[i].id = p
                                         /\ \A j \in 1..(i - 1) : vec[j].id # p
                              IN [vec EXCEPT ![f] = b]
                         ELSE vec
      [] k = "delete" -> SelectSeq(vec, LAMBDA t : t.id # p)
      [] OTHER -> vec

SeqStatus(k, p, b, vec) ==
    CASE k = "create" -> IF \E i \in 1..Len(vec) : vec[i].id = b.id
                         THEN BAD_REQUEST ELSE CREATED
      [] k = "update" -> IF \E i \in 1..Len(vec) : vec[i].id = p
                         THEN OK ELSE NOT_FOUND
      [] k = "delete" -> IF \E i \in 1..Len(vec) : vec[i].id = p
                         THEN NO_CONTENT ELSE NOT_FOUND
      [] OTHER -> OK

(* ------------------------------- state --------------------------------- *)

VARIABLES
    db,        \* the Vec<Todo> inside the Mutex
    lock,      \* the request holding the MutexGuard, 0 when the mutex is free
    pc,        \* where each request is
    kind,      \* the route the request matched
    path,      \* the u64 path parameter of PUT and DELETE
    body,      \* the Todo parsed from the JSON body of POST and PUT
    local,     \* the handler's local: index found by the loop, or `len`
    status,    \* the status code of the response, 0 before there is one
    reply,     \* the JSON array of the response while it is being returned
    attempts,  \* outbound GETs issued for the request
    bytes,     \* the upstream body the request received
    err,       \* the FetchError of the request: "none", "Http" or "Json"
    lin,       \* history: the todos after the calls so far, one at a time in
               \* the order of their lock acquisitions
    expect,    \* history: the status the request gets in that order
    lastList,  \* history: the array of the latest GET /todos, while no write
               \* succeeded after it, and whether the GET before it is in
               \* the same case
    gone,      \* history: followed ids deleted with a 204 and not created since
    watch,     \* history: the ids whose deletions are followed
    poisoned   \* the poison flag of the Mutex: a guard was dropped by a panic

vars == <<db, lock, pc, kind, path, body, local, status, reply, attempts,
          bytes, err, lin, expect, lastList, gone, watch, poisoned>>

store == <<db, lin, lastList, gone>>
fetch == <<attempts, bytes, err>>

NoList == [valid |-> FALSE, again |-> FALSE, items |-> <<>>]

\* requests between the call of their handler and its return
InFlight == {"waiting", "locked", "scanned", "ret"}

\* requests that hold the MutexGuard
Critical == {"locked", "scanned", "ret"}

\* connections with no request under way: none yet, or the last one answered
\* by its handler, rejected by a filter, or ended by the panic of its handler
Settled == {"idle", "done", "rejected", "panicked"}

\* Arc::new(Mutex::new(Vec::new())), and no request yet
Constructed ==
    /\ db = <<>>
    /\ lock = 0
    /\ pc = [r \in Reqs |-> "idle"]
    /\ kind = [r \in Reqs |-> "list"]
    /\ path = [r \in Reqs |-> 0]
    /\ body = [r \in Reqs |-> NoTodo]
    /\ local = [r \in Reqs |-> 0]
    /\ status = [r \in Reqs |-> 0]
    /\ reply = [r \in Reqs |-> <<>>]
    /\ attempts = [r \in Reqs |-> 0]
    /\ bytes = [r \in Reqs |-> NoBytes]
    /\ err = [r \in Reqs |-> "none"]
    /\ lin = <<>>
    /\ expect = [r \in Reqs |-> 0]
    /\ lastList = NoList
    /\ gone = {}
    /\ poisoned = FALSE

Init == Constructed /\ watch = {}

\* the same start, with the deletions of every id followed
InitWatch == Constructed /\ watch = Ids

(* ------------------------------ routing -------------------------------- *)

\* a request matched route k with path parameter p and body b: its handler is
\* called
Route(r, k, p, b) ==
    /\ r \in Reqs
    /\ pc[r] \in Settled
    /\ pc' = [pc EXCEPT ![r] = IF TakesDb(k) THEN "waiting" ELSE "call"]
    /\ kind' = [kind EXCEPT ![r] = k]
    /\ path' = [path EXCEPT ![r] = p]
    /\ body' = [body EXCEPT ![r] = b]
    /\ local' = [local EXCEPT ![r] = 0]
    /\ status' = [status EXCEPT ![r] = 0]
    /\ attempts' = [attempts EXCEPT ![r] = 0]
    /\ err' = [err EXCEPT ![r] = "none"]
    /\ UNCHANGED <<db, lock, reply, bytes, lin, expect, lastList, gone, watch, poisoned>>

\* GET /todos
StartList(r) == Route(r, "list", 0, NoTodo)

\* POST /todos
StartCreate(r) ==
    /\ Len(db) + Cardinality({q \in DOMAIN pc :
                                kind[q] = "create" /\ pc[q] \in InFlight}) < MaxLen
    /\ \E b \in Bodies : Route(r, "create", 0, b)

\* PUT /todos/:id
StartUpdate(r) == \E p \in Ids, b \in Bodies : Route(r, "update", p, b)

\* DELETE /todos/:id
StartDelete(r) == \E p \in Ids : Route(r, "delete", p, NoTodo)

\* GET /posts
StartPosts(r) == Route(r, "posts", 0, NoTodo)

\* json_body rejected the body of a request that matched the method and the
\* path of route k: the filters after json_body, which clone the Db and call
\* the handler, do not run, and the rejection becomes the response
Reject(r, k, length, parsed) ==
    /\ r \in Reqs
    /\ pc[r] \in Settled
    /\ JsonBodyStatus(length, parsed) # 0
    /\ pc' = [pc EXCEPT ![r] = "rejected"]
    /\ kind' = [kind EXCEPT ![r] = k]
    /\ path' = [path EXCEPT ![r] = 0]
    /\ body' = [body EXCEPT ![r] = NoTodo]
    /\ local' = [local EXCEPT ![r] = 0]
    /\ status' = [status EXCEPT ![r] = JsonBodyStatus(length, parsed)]
    /\ attempts' = [attempts EXCEPT ![r] = 0]
    /\ err' = [err EXCEPT ![r] = "none"]
    /\ UNCHANGED <<db, lock, reply, bytes, lin, expect, lastList, gone, watch, poisoned>>

\* POST /todos with a body that json_body rejects
RejectCreate(r) ==
    \E length \in Lengths, parsed \in BOOLEAN : Reject(r, "create", length, parsed)

\* PUT /todos/:id with a body that json_body rejects
RejectUpdate(r) ==
    \E length \in Lengths, parsed \in BOOLEAN : Reject(r, "update", length, parsed)

(* --------------------------- store handlers ---------------------------- *)

\* db.lock().unwrap()
Lock(r) ==
    /\ pc[r] = "waiting"
    /\ MutexFree(lock)
    /\ ~poisoned
    /\ lock' = r
    /\ pc' = [pc EXCEPT ![r] = "locked"]
    /\ lin' = SeqStore(kind[r], path[r], body[r], lin)
    /\ expect' = [expect EXCEPT ![r] = SeqStatus(kind[r], path[r], body[r], lin)]
    /\ UNCHANGED <<db, kind, path, body, local, status, reply, lastList, gone, watch, poisoned>>
    /\ UNCHANGED fetch

\* list_todos: warp::reply::json(&*db.lock().unwrap())
ListReply(r) ==
    /\ pc[r] = "locked" /\ kind[r] = "list"
    /\ reply' = [reply EXCEPT ![r] = ReplyJson(db)]
    /\ status' = [status EXCEPT ![r] = OK]
    /\ pc' = [pc EXCEPT ![r] = "ret"]
    /\ lastList' = [valid |-> TRUE, again |-> lastList.valid, items |-> reply'[r]]
    /\ UNCHANGED <<db, lock, kind, path, body, local, lin, expect, gone, watch, poisoned>>
    /\ UNCHANGED fetch

\* create_todo: the loop over vec.iter()
CreateScan(r) ==
    /\ pc[r] = "locked" /\ kind[r] = "create"
    /\ local' = [local EXCEPT ![r] = FirstIdx(db, body[r].id)]
    /\ pc' = [pc EXCEPT ![r] = "scanned"]
    /\ UNCHANGED <<lock, kind, path, body, status, reply, expect, watch, poisoned>>
    /\ UNCHANGED store
    /\ UNCHANGED fetch

\* create_todo: return 400 out of the loop, or push and 201
CreateAct(r) ==
    /\ pc[r] = "scanned" /\ kind[r] = "create"
    /\ db' = CreateStore(db, local[r], body[r])
    /\ status' = [status EXCEPT ![r] = CreateStatus(local[r])]
    /\ pc' = [pc EXCEPT ![r] = "ret"]
    /\ lastList' = IF status'[r] = CREATED THEN NoList ELSE lastList
    /\ gone' = IF status'[r] = CREATED THEN gone \ {body[r].id} ELSE gone
    /\ UNCHANGED <<lock, kind, path, body, local, reply, lin, expect, watch, poisoned>>
    /\ UNCHANGED fetch

\* update_todo: the loop over vec.iter_mut() up to the match
UpdateScan(r) ==
    /\ pc[r] = "locked" /\ kind[r] = "update"
    /\ local' = [local EXCEPT ![r] = FirstIdx(db, path[r])]
    /\ pc' = [pc EXCEPT ![r] = "scanned"]
    /\ UNCHANGED <<lock, kind, path, body, status, reply, expect, watch, poisoned>>
    /\ UNCHANGED store
    /\ UNCHANGED fetch

\* update_todo: *todo = update and 200, or 404 after the loop
UpdateAct(r) ==
    /\ pc[r] = "scanned" /\ kind[r] = "update"
    /\ db' = UpdateStore(db, local[r], body[r])
    /\ status' = [status EXCEPT ![r] = UpdateStatus(local[r])]
    /\ pc' = [pc EXCEPT ![r] = "ret"]
    /\ lastList' = IF status'[r] = OK THEN NoList ELSE lastList
    /\ UNCHANGED <<lock, kind, path, body, local, reply, lin, expect, gone, watch, poisoned>>
    /\ UNCHANGED fetch

\* delete_todo: let len = vec.len()
DeleteLen(r) ==
    /\ pc[r] = "locked" /\ kind[r] = "delete"
    /\ local' = [local EXCEPT ![r] = Len(db)]
    /\ pc' = [pc EXCEPT ![r] = "scanned"]
    /\ UNCHANGED <<lock, kind, path, body, status, reply, expect, watch, poisoned>>
    /\ UNCHANGED store
    /\ UNCHANGED fetch

\* delete_todo: vec.retain(..), then 204 or 404 by the lengths
DeleteAct(r) ==
    /\ pc[r] = "scanned" /\ kind[r] = "delete"
    /\ db' = Retain(db, path[r])
    /\ status' = [status EXCEPT ![r] = DeleteStatus(db', local[r])]
    /\ pc' = [pc EXCEPT ![r] = "ret"]
    /\ lastList' = IF status'[r] = NO_CONTENT THEN NoList ELSE lastList
    /\ gone' = IF status'[r] = NO_CONTENT THEN gone \cup ({path[r]} \cap watch) ELSE gone
    /\ UNCHANGED <<lock, kind, path, body, local, reply, lin, expect, watch, poisoned>>
    /\ UNCHANGED fetch

\* the handler returns: its locals, the guard among them, are dropped and the
\* response goes out
Return(r) ==
    /\ pc[r] \in {"ret", "reply"}
    /\ lock' = GuardDrop(lock, r)
    /\ pc' = [pc EXCEPT ![r] = "done"]
    /\ reply' = [reply EXCEPT ![r] = <<>>]
    /\ local' = [local EXCEPT ![r] = 0]
    /\ expect' = [expect EXCEPT ![r] = 0]
    /\ path' = IF r \in Reqs THEN [path EXCEPT ![r] = 0] ELSE path
    /\ body' = IF r \in Reqs THEN [body EXCEPT ![r] = NoTodo] ELSE body
    /\ bytes' = [bytes EXCEPT ![r] = NoBytes]
    /\ UNCHANGED <<kind, status, watch, attempts, err, poisoned>>
    /\ UNCHANGED store

(* ----------------------------- GET /posts ------------------------------ *)

\* fetch_json: client.get(url)
PostsGet(r) ==
    /\ pc[r] = "call"
    /\ attempts' = [attempts EXCEPT ![r] = @ + 1]
    /\ pc' = [pc EXCEPT ![r] = "pending"]
    /\ UNCHANGED <<lock, kind, path, body, local, status, reply, bytes, err, expect, watch, poisoned>>
    /\ UNCHANGED store

\* the connection or the body stream fails: hyper::Error, from_err
PostsFail(r) ==
    /\ pc[r] = "pending"
    /\ err' = [err EXCEPT ![r] = "Http"]
    /\ pc' = [pc EXCEPT ![r] = "settled"]
    /\ UNCHANGED <<lock, kind, path, body, local, status, reply, attempts, bytes, expect, watch, poisoned>>
    /\ UNCHANGED store

\* the response arrives and concat2() yields its body
PostsBody(r) ==
    /\ pc[r] = "pending"
    /\ \E b \in UpBodies : bytes' = [bytes EXCEPT ![r] = b]
    /\ pc' = [pc EXCEPT ![r] = "parse"]
    /\ UNCHANGED <<lock, kind, path, body, local, status, reply, attempts, err, expect, watch, poisoned>>
    /\ UNCHANGED store

\* serde_json::from_slice(&body)?
PostsParse(r) ==
    /\ pc[r] = "parse"
    /\ err' = [err EXCEPT ![r] = IF DecodeOk(bytes[r]) THEN "none" ELSE "Json"]
    /\ pc' = [pc EXCEPT ![r] = "settled"]
    /\ UNCHANGED <<lock, kind, path, body, local, status, reply, attempts, bytes, expect, watch, poisoned>>
    /\ UNCHANGED store

\* posts_list: the future resolves to the reply or to the rejection
PostsReply(r) ==
    /\ pc[r] = "settled"
    /\ status' = [status EXCEPT ![r] = PostsStatus(err[r])]
    /\ reply' = [reply EXCEPT ![r] =
                    IF err[r] = "none" THEN PostsJson(Decode(bytes[r])) ELSE <<>>]
    /\ pc' = [pc EXCEPT ![r] = "reply"]
    /\ UNCHANGED <<lock, kind, path, body, local, attempts, bytes, err, expect, watch, poisoned>>
    /\ UNCHANGED store

(* ------------------------------- panics -------------------------------- *)

\* create_todo: vec.push(create) panics (Vec::push panics when the new
\* capacity overflows); the unwinding drops the guard `vec`, which poisons
\* the mutex, and the request ends without a response
CreatePanic(r) ==
    /\ pc[r] = "scanned" /\ kind[r] = "create"
    /\ local[r] = 0
    /\ lock' = GuardDrop(lock, r)
    /\ poisoned' = TRUE
    /\ pc' = [pc EXCEPT ![r] = "panicked"]
    /\ expect' = [expect EXCEPT ![r] = 0]
    /\ path' = IF r \in Reqs THEN [path EXCEPT ![r] = 0] ELSE path
    /\ body' = IF r \in Reqs THEN [body EXCEPT ![r] = NoTodo] ELSE body
    /\ UNCHANGED <<db, kind, local, status, reply, lin, lastList, gone, watch>>
    /\ UNCHANGED fetch

\* db.lock().unwrap() on a poisoned mutex: lock() returns Err(PoisonError)
\* once no guard is alive, unwrap() panics, and the request ends without a
\* response; the guard inside the error is dropped with it
LockPoisoned(r) ==
    /\ pc[r] = "waiting"
    /\ MutexFree(lock)
    /\ poisoned
    /\ pc' = [pc EXCEPT ![r] = "panicked"]
    /\ path' = IF r \in Reqs THEN [path EXCEPT ![r] = 0] ELSE path
    /\ body' = IF r \in Reqs THEN [body EXCEPT ![r] = NoTodo] ELSE body
    /\ UNCHANGED <<db, lock, kind, local, status, reply, lin, expect, lastList,
                   gone, watch, poisoned>>
    /\ UNCHANGED fetch

(* --------------------------- specifications ---------------------------- *)

Next ==
    \/ \E r \in DOMAIN pc : StartList(r)
    \/ \E r \in DOMAIN pc : StartCreate(r)
    \/ \E r \in DOMAIN pc : StartUpdate(r)
    \/ \E r \in DOMAIN pc : StartDelete(r)
    \/ \E r \in DOMAIN pc : StartPosts(r)
    \/ \E r \in DOMAIN pc : RejectCreate(r)
    \/ \E r \in DOMAIN pc : RejectUpdate(r)
    \/ \E r \in DOMAIN pc : Lock(r)
    \/ \E r \in DOMAIN pc : ListReply(r)
    \/ \E r \in DOMAIN pc : CreateScan(r)
    \/ \E r \in DOMAIN pc : CreateAct(r)
    \/ \E r \in DOMAIN pc : UpdateScan(r)
    \/ \E r \in DOMAIN pc : UpdateAct(r)
    \/ \E r \in DOMAIN pc : DeleteLen(r)
    \/ \E r \in DOMAIN pc : DeleteAct(r)
    \/ \E r \in DOMAIN pc : Return(r)
    \/ \E r \in DOMAIN pc : PostsGet(r)
    \/ \E r \in DOMAIN pc : PostsFail(r)
    \/ \E r \in DOMAIN pc : PostsBody(r)
    \/ \E r \in DOMAIN pc : PostsParse(r)
    \/ \E r \in DOMAIN pc : PostsReply(r)

Spec == Init /\ [][Next]_vars

SpecWatch == InitWatch /\ [][Next]_vars

\* the steps of Next, and the panics
NextPanic ==
    \/ \E r \in DOMAIN pc : StartList(r)
    \/ \E r \in DOMAIN pc : StartCreate(r)
    \/ \E r \in DOMAIN pc : StartUpdate(r)
    \/ \E r \in DOMAIN pc : StartDelete(r)
    \/ \E r \in DOMAIN pc : StartPosts(r)
    \/ \E r \in DOMAIN pc : RejectCreate(r)
    \/ \E r \in DOMAIN pc : RejectUpdate(r)
    \/ \E r \in DOMAIN pc : Lock(r)
    \/ \E r \in DOMAIN pc : ListReply(r)
    \/ \E r \in DOMAIN pc : CreateScan(r)
    \/ \E r \in DOMAIN pc : CreateAct(r)
    \/ \E r \in DOMAIN pc : UpdateScan(r)
    \/ \E r \in DOMAIN pc : UpdateAct(r)
    \/ \E r \in DOMAIN pc : DeleteLen(r)
    \/ \E r \in DOMAIN pc : DeleteAct(r)
    \/ \E r \in DOMAIN pc : Return(r)
    \/ \E r \in DOMAIN pc : PostsGet(r)
    \/ \E r \in DOMAIN pc : PostsFail(r)
    \/ \E r \in DOMAIN pc : PostsBody(r)
    \/ \E r \in DOMAIN pc : PostsParse(r)
    \/ \E r \in DOMAIN pc : PostsReply(r)
    \/ \E r \in DOMAIN pc : CreatePanic(r)
    \/ \E r \in DOMAIN pc : LockPoisoned(r)

\* runs in which a push of create_todo may panic
SpecPanic == Init /\ [][NextPanic]_vars

(* ------------- fair scheduling, the upstream never answers ------------- *)

\* the steps of Next without those that end an outbound call: every
\* GET /posts stays pending
NextFair ==
    \/ \E r \in DOMAIN pc : StartList(r)
    \/ \E r \in DOMAIN pc : StartCreate(r)
    \/ \E r \in DOMAIN pc : StartUpdate(r)
    \/ \E r \in DOMAIN pc : StartDelete(r)
    \/ \E r \in DOMAIN pc : StartPosts(r)
    \/ \E r \in DOMAIN pc : Lock(r)
    \/ \E r \in DOMAIN pc : ListReply(r)
    \/ \E r \in DOMAIN pc : CreateScan(r)
    \/ \E r \in DOMAIN pc : CreateAct(r)
    \/ \E r \in DOMAIN pc : UpdateScan(r)
    \/ \E r \in DOMAIN pc : UpdateAct(r)
    \/ \E r \in DOMAIN pc : DeleteLen(r)
    \/ \E r \in DOMAIN pc : DeleteAct(r)
    \/ \E r \in DOMAIN pc : Return(r)
    \/ \E r \in DOMAIN pc : PostsGet(r)

\* the thread that runs a handler which holds the guard keeps running
HandlerStep(r) ==
    \/ ListReply(r)
    \/ CreateScan(r)
    \/ CreateAct(r)
    \/ UpdateScan(r)
    \/ UpdateAct(r)
    \/ DeleteLen(r)
    \/ DeleteAct(r)
    \/ Return(r)

\* a handler that holds the guard keeps running, and a handler blocked in
\* lock() is not passed over for ever when the mutex is free again and again;
\* nothing makes a client send a request or the upstream answer
Fairness ==
    \A r \in Reqs : WF_vars(HandlerStep(r)) /\ SF_vars(Lock(r))

SpecFair == Init /\ [][NextFair]_vars /\ Fairness

(* ----------------- concurrent creates of distinct ids ------------------ *)

\* the number of clients that each send one POST /todos at the same time
NCreate == 3

Clients == 101..(100 + NCreate)

\* client 100 + k asks for one of the ids 1..NCreate
CreateBodies == {Todo(i, p.text, p.completed) : i \in 1..NCreate, p \in Payloads}

\* the handlers of NCreate POST /todos with pairwise distinct ids are called;
\* the store is empty or holds one record of another id
InitCreates ==
    /\ db \in {<<>>} \cup {<<[todo |-> Todo(0, p.text, p.completed), born |-> 1]>> :
                              p \in Payloads}
    /\ lock = 0
    /\ pc = [r \in Clients |-> "waiting"]
    /\ kind = [r \in Clients |-> "create"]
    /\ path = [r \in Clients |-> 0]
    /\ body \in [Clients -> CreateBodies]
    /\ \A r, q \in Clients : r # q => body[r].id # body[q].id
    /\ local = [r \in Clients |-> 0]
    /\ status = [r \in Clients |-> 0]
    /\ reply = [r \in Clients |-> <<>>]
    /\ attempts = [r \in Clients |-> 0]
    /\ bytes = [r \in Clients |-> NoBytes]
    /\ err = [r \in Clients |-> "none"]
    /\ lin = Todos(db)
    /\ expect = [r \in Clients |-> 0]
    /\ lastList = NoList
    /\ gone = {}
    /\ watch = {}
    /\ poisoned = FALSE

NextCreates ==
    \/ \E r \in DOMAIN pc : Lock(r)
    \/ \E r \in DOMAIN pc : CreateScan(r)
    \/ \E r \in DOMAIN pc : CreateAct(r)
    \/ \E r \in DOMAIN pc : Return(r)

SpecCreates == InitCreates /\ [][NextCreates]_vars

(* ------------------- concurrent creates of one id ---------------------- *)

\* the handlers of NCreate POST /todos that all carry the same id, with any
\* texts and flags, are called; no record of the store has the id
InitSame ==
    /\ db \in {<<>>} \cup {<<[todo |-> Todo(0, p.text, p.completed), born |-> 1]>> :
                              p \in Payloads}
    /\ lock = 0
    /\ pc = [r \in Clients |-> "waiting"]
    /\ kind = [r \in Clients |-> "create"]
    /\ path = [r \in Clients |-> 0]
    /\ body \in [Clients -> CreateBodies]
    /\ \A r, q \in Clients : body[r].id = body[q].id
    /\ local = [r \in Clients |-> 0]
    /\ status = [r \in Clients |-> 0]
    /\ reply = [r \in Clients |-> <<>>]
    /\ attempts = [r \in Clients |-> 0]
    /\ bytes = [r \in Clients |-> NoBytes]
    /\ err = [r \in Clients |-> "none"]
    /\ lin = Todos(db)
    /\ expect = [r \in Clients |-> 0]
    /\ lastList = NoList
    /\ gone = {}
    /\ watch = {}
    /\ poisoned = FALSE

SpecSame == InitSame /\ [][NextCreates]_vars

(* ------------------------------ the claims ----------------------------- *)

\* the steps in which a handler decides its answer
Acts(r, k) == pc[r] = "scanned" /\ pc'[r] = "ret" /\ kind[r] = k
Lists(r) == pc[r] = "locked" /\ pc'[r] = "ret" /\ kind[r] = "list"

Present(vec, id) == \E i \in 1..Len(vec) : vec[i].todo.id = id

\* C1: in every reachable state no two records of the store have the same id.
C1_UniqueIds ==
    \A i, j \in 1..Len(db) : i # j => db[i].todo.id # db[j].todo.id

\* C2: a create whose body id is the id of a record in the store answers 400
\* and leaves the store as it is.
C2_CreateConflict ==
    [][\A r \in DOMAIN pc :
          (Acts(r, "create") /\ Present(db, body[r].id))
              => (status'[r] = BAD_REQUEST /\ db' = db)]_vars

C2_Witness ==
    \E r \in DOMAIN pc :
        /\ pc[r] = "ret" /\ kind[r] = "create"
        /\ status[r] = BAD_REQUEST
        /\ Present(db, body[r].id)

\* C3: PUT /todos/{id} answers 200 exactly when a record with that id is in
\* the store, and then the store shows a record with id {id} that carries the
\* body's text and completed; otherwise it answers 404 and the store is
\* unchanged.
C3_UpdateOr404 ==
    [][\A r \in DOMAIN pc :
          Acts(r, "update") =>
              /\ status'[r] = OK <=> Present(db, path[r])
              /\ status'[r] = OK =>
                    \E i \in 1..Len(db') :
                        db'[i].todo = Todo(path[r], body[r].text, body[r].completed)
              /\ ~Present(db, path[r]) => (status'[r] = NOT_FOUND /\ db' = db)]_vars

\* C4: after a DELETE of an id answered 204, and until a create of that id
\* succeeds, the id is in no record of the store and in no GET /todos
\* result, and every DELETE or PUT on it answers 404.
C4_DeleteThenAbsent ==
    [][/\ \A i \in gone' : ~Present(db', i)
       /\ \A r \in DOMAIN pc :
            ((Acts(r, "update") \/ Acts(r, "delete")) /\ path[r] \in gone)
                => status'[r] = NOT_FOUND
       /\ \A r \in DOMAIN pc :
            Lists(r) => \A k \in 1..Len(reply'[r]) : reply'[r][k].id \notin gone]_vars

\* C5: concurrent creates of pairwise distinct ids that are not in the store
\* all answer 201, and the list holds each of their records exactly once,
\* and nothing else but what it held before, under every interleaving.
C5_DistinctCreates ==
    (/\ \A r \in DOMAIN pc : kind[r] = "create" /\ pc[r] # "idle"
     /\ \A r, q \in DOMAIN pc : r # q => body[r].id # body[q].id)
    =>
    /\ \A r \in DOMAIN pc :
          pc[r] \in {"ret", "done"} =>
              /\ status[r] = CREATED
              /\ Cardinality({i \in 1..Len(db) : db[i].todo = body[r]}) = 1
    /\ (\A r \in DOMAIN pc : pc[r] = "done") =>
          /\ Len(db) = Cardinality(DOMAIN pc)
                        + Cardinality({i \in 1..Len(db) : db[i].todo.id = 0})
          /\ Cardinality({i \in 1..Len(db) : db[i].todo.id = 0}) <= 1

C5_Witness ==
    /\ Cardinality(DOMAIN pc) >= 3
    /\ \A r \in DOMAIN pc :
          pc[r] = "done" /\ kind[r] = "create" /\ status[r] = CREATED
    /\ \A r, q \in DOMAIN pc : r # q => body[r].id # body[q].id
    /\ Len(db) > Cardinality(DOMAIN pc)
    /\ db[2].todo.id > db[3].todo.id

\* C6: at most one handler holds the lock, a handler holds it from its scan
\* to its return, and the store and every answer are those of the same calls
\* run one at a time in the order of their lock acquisitions.
C6_Linearizable ==
    /\ Cardinality({r \in DOMAIN pc : pc[r] \in Critical}) <= 1
    /\ \A r \in DOMAIN pc : pc[r] \in Critical => lock = r
    /\ \A r \in DOMAIN pc :
          pc[r] = "ret" =>
              /\ status[r] = expect[r]
              /\ Todos(db) = lin
              /\ kind[r] = "list" => reply[r] = lin
    /\ lock = 0 => Todos(db) = lin

C6_Witness ==
    \E r, q \in DOMAIN pc :
        /\ r # q
        /\ pc[r] = "ret" /\ kind[r] = "create" /\ status[r] = CREATED
        /\ pc[q] = "waiting" /\ kind[q] = "delete" /\ path[q] = body[r].id
        /\ Len(db) = 2

\* C7: a handler that has returned, by any of its exits, does not hold the
\* lock: the lock is held only by a handler between its lock() and its return.
C7_GuardReleased ==
    /\ \A r \in DOMAIN pc : pc[r] \notin Critical => lock # r
    /\ (\A r \in DOMAIN pc : pc[r] \notin Critical) => lock = 0

C7_Witness ==
    \E r, q \in DOMAIN pc :
        /\ pc[r] = "done" /\ kind[r] = "create" /\ status[r] = BAD_REQUEST
        /\ pc[q] = "done" /\ kind[q] = "delete" /\ status[q] = NOT_FOUND
        /\ lock = 0

\* C8: a proxy request never holds the lock, and none of its steps changes
\* the store or the lock; store requests and other proxy requests run while
\* its outbound call is pending.
C8_ProxyLockFree ==
    [][/\ \A r \in DOMAIN pc :
            (kind'[r] = "posts" /\ pc'[r] \notin {"idle", "done"}) => lock' # r
       /\ \A r \in DOMAIN pc :
            (kind[r] = "posts" /\ pc[r] \notin {"idle", "done"} /\ pc'[r] # pc[r])
                => (db' = db /\ lock' = lock)]_vars

C8_Witness ==
    \E r, q \in DOMAIN pc :
        /\ pc[r] = "pending" /\ kind[r] = "posts"
        /\ pc[q] = "ret" /\ kind[q] = "update" /\ status[q] = OK
        /\ lock = q

\* C9: a proxy request answers 404 after a transport failure and after a body
\* that does not decode, 200 with the decoded list otherwise, and issues
\* exactly one outbound GET.
C9_ProxyOutcome ==
    \A r \in DOMAIN pc :
        kind[r] = "posts" =>
            /\ attempts[r] <= 1
            /\ pc[r] \in {"reply", "done"} =>
                  /\ attempts[r] = 1
                  /\ err[r] \in {"Http", "Json"} => status[r] = NOT_FOUND
                  /\ err[r] = "none" => status[r] = OK
            /\ pc[r] = "reply" =>
                  /\ err[r] = "Http" <=> bytes[r] = NoBytes
                  /\ err[r] = "Json" <=>
                        (\/ bytes[r].syntax \in {"garbage", "object"}
                         \/ \E i \in 1..Len(bytes[r].items) :
                               \E k \in {"userId", "id", "title", "body"} :
                                   \/ k \notin DOMAIN bytes[r].items[i]
                                   \/ bytes[r].items[i][k].t
                                        # (IF k \in {"userId", "id"} THEN "num" ELSE "str"))
                  /\ err[r] = "none" =>
                        /\ Len(reply[r]) = Len(bytes[r].items)
                        /\ \A i \in 1..Len(reply[r]) :
                              /\ reply[r][i].userId = bytes[r].items[i]["userId"].n
                              /\ reply[r][i].id = bytes[r].items[i]["id"].n
                              /\ reply[r][i].title = bytes[r].items[i]["title"].s
                              /\ reply[r][i].body = bytes[r].items[i]["body"].s
                  /\ err[r] # "none" => reply[r] = <<>>

C9_Witness ==
    \E r, q \in DOMAIN pc :
        /\ kind[r] = "posts" /\ pc[r] = "done" /\ err[r] = "Http"
        /\ kind[q] = "posts" /\ pc[q] = "done" /\ err[q] = "Json"
        /\ status[r] = NOT_FOUND /\ status[q] = NOT_FOUND

\* C10: GET /todos leaves the store as it is, its array is the records of the
\* store in the order of their pushes, and it equals the array of the GET
\* before it when no write succeeded in between.
C10_ListSnapshot ==
    [][\A r \in DOMAIN pc :
          Lists(r) =>
              /\ db' = db
              /\ status'[r] = OK
              /\ Len(reply'[r]) = Len(db)
              /\ \A k \in 1..Len(db) :
                    \E i \in 1..Len(db) :
                        /\ Cardinality({j \in 1..Len(db) : db[j].born <= db[i].born}) = k
                        /\ reply'[r][k] = db[i].todo
              /\ lastList.valid => reply'[r] = lastList.items]_vars

C10_Witness ==
    \E r \in DOMAIN pc :
        /\ pc[r] = "ret" /\ kind[r] = "list"
        /\ Len(reply[r]) = 2
        /\ reply[r][1] # reply[r][2]
        /\ lastList.again

\* C13: a create whose body id is the id of no record in the store answers
\* 201 and puts the body after the last record: the store is one longer and
\* every record it held is where and what it was.
C13_CreateAppends ==
    [][\A r \in DOMAIN pc :
          (Acts(r, "create") /\ ~Present(db, body[r].id)) =>
              /\ status'[r] = CREATED
              /\ Len(db') = Len(db) + 1
              /\ db'[Len(db')].todo = body[r]
              /\ \A i \in 1..Len(db) : db'[i] = db[i]]_vars

C13_Witness ==
    \E r \in DOMAIN pc :
        /\ pc[r] = "ret" /\ kind[r] = "create" /\ status[r] = CREATED
        /\ Len(db) = 2
        /\ db[2].todo = body[r]
        /\ db[1].todo # body[r]

\* C14: a DELETE answers 404 exactly when no record has the id, and then the
\* store is unchanged; a DELETE that answers 204 removes exactly one record
\* and the others keep their order and contents.
C14_DeleteFrame ==
    [][\A r \in DOMAIN pc :
          Acts(r, "delete") =>
              /\ status'[r] = NOT_FOUND <=> ~Present(db, path[r])
              /\ status'[r] = NOT_FOUND => db' = db
              /\ status'[r] = NO_CONTENT =>
                    /\ Len(db') = Len(db) - 1
                    /\ \E k \in 1..Len(db) :
                          /\ db[k].todo.id = path[r]
                          /\ \A j \in 1..Len(db') :
                                db'[j].todo = db[IF j < k THEN j ELSE j + 1].todo]_vars

\* C15: a PUT that answers 200 leaves the length of the store as it was and
\* changes one position only: the matched record is replaced where it is and
\* every other record is where and what it was.
C15_UpdateFrame ==
    [][\A r \in DOMAIN pc :
          (Acts(r, "update") /\ status'[r] = OK) =>
              /\ Len(db') = Len(db)
              /\ \E k \in 1..Len(db) :
                    /\ db[k].todo.id = path[r]
                    /\ db'[k].todo = body[r]
                    /\ db'[k].born = db[k].born
                    /\ \A j \in 1..Len(db) : j # k => db'[j] = db[j]]_vars

C15_Witness ==
    \E r \in DOMAIN pc :
        /\ pc[r] = "ret" /\ kind[r] = "update" /\ status[r] = OK
        /\ Len(db) = 2
        /\ db[1].todo = body[r]
        /\ db[2].todo # body[r]

\* C17: of concurrent creates that carry one id, which is in no record of the
\* store, exactly one answers 201 and every other answers 400, and the store
\* ends with exactly one record of the id: the body of the one answered 201.
C17_SameIdCreates ==
    (/\ \A r \in DOMAIN pc : kind[r] = "create" /\ pc[r] # "idle"
     /\ \A r, q \in DOMAIN pc : body[r].id = body[q].id)
    =>
    /\ Cardinality({r \in DOMAIN pc :
                      pc[r] \in {"ret", "done"} /\ status[r] = CREATED}) <= 1
    /\ \A r \in DOMAIN pc :
          pc[r] \in {"ret", "done"} => status[r] \in {CREATED, BAD_REQUEST}
    /\ (\A r \in DOMAIN pc : pc[r] = "done") =>
          \E w \in DOMAIN pc :
              /\ status[w] = CREATED
              /\ \A q \in DOMAIN pc : q # w => status[q] = BAD_REQUEST
              /\ Cardinality({i \in 1..Len(db) : db[i].todo.id = body[w].id}) = 1
              /\ \E i \in 1..Len(db) : db[i].todo = body[w]

C17_Witness ==
    /\ Cardinality(DOMAIN pc) >= 3
    /\ \A r \in DOMAIN pc : pc[r] = "done" /\ kind[r] = "create"
    /\ \A r, q \in DOMAIN pc : body[r].id = body[q].id
    /\ \E w, q \in DOMAIN pc :
          /\ w > q
          /\ status[w] = CREATED /\ status[q] = BAD_REQUEST
          /\ body[w] # body[q]
          /\ db[Len(db)].todo = body[w]
          /\ Len(db) = 2

\* C18: a create of an id that was deleted with a 204, and that no create
\* stored since, answers 201 and appends its record after every record of
\* the store, which it leaves as they are.
C18_ReuseAfterDelete ==
    [][\A r \in DOMAIN pc :
          (Acts(r, "create") /\ body[r].id \in gone) =>
              /\ status'[r] = CREATED
              /\ Len(db') = Len(db) + 1
              /\ db'[Len(db')].todo = body[r]
              /\ \A i \in 1..Len(db) : db'[i] = db[i]]_vars

\* the step in which the body of request r is rejected
Rejects(r) ==
    /\ pc'[r] = "rejected"
    /\ pc[r] # "rejected" \/ kind'[r] # kind[r] \/ status'[r] # status[r]

C12_PoisonedLockAnswered ==
    [][\A r \in DOMAIN pc :
          (pc[r] = "waiting" /\ poisoned /\ pc'[r] # "waiting") =>
              /\ pc'[r] # "panicked"
              /\ status'[r] \in 500..599]_vars

====
